---- MODULE Spec2Model ----
(***************************************************************************)
(* Scenario-parameterised model construction of the farmer examples:       *)
(*   examples/farmer-extensive-form.py   (script "extensive")              *)
(*   mpi-sppy/farmer-3-scenarios.py      (script "mpi3")                   *)
(*   mpi-sppy/farmer-n-scenarios-PH.py   (script "ph")                     *)
(* of the two single-scenario farmer scripts:                              *)
(*   farmer-scenario-representation.py            (script "scalar")        *)
(*   examples/farmer-scenario-representation.py   (script "attr")          *)
(* and of the sampled news vendor:                                         *)
(*   examples/news-vendor/news-vendor-sampling.py   (script "sampling")    *)
(*   examples/news-vendor.py                        (script "newsvendor")  *)
(* One behaviour is one Python process running one of the scripts' code.   *)
(* An optimisation model is a record: the index sets of its variable       *)
(* groups, its objective and its constraints as linear expressions         *)
(* (functions from variables to coefficients).                             *)
(*                                                                         *)
(* Numbers.  predicted_yield is kept in units of 1/MultDen, the fair       *)
(* weather yields in units of 1/BaseDen, so a crop yield and every         *)
(* constraint coefficient and right-hand side is in units of 1/YieldDen.   *)
(* Objective coefficients of the extensive form are rationals <<n, d>>.    *)
(***************************************************************************)
EXTENDS Integers, Sequences, FiniteSets, TLC

VARIABLES
    script,                 \* which script's code this process runs
    pc,                     \* "start" | "ready" | "done" | "crashed"
    err,                    \* the exception that ended the process, or "none"
    weathers,               \* Farmer.weathers (extensive-form script)
    crop_yield,             \* Farmer.crop_yield
    deterministic_model,    \* Farmer.deterministic_model
    extensive_form_model,   \* Farmer.extensive_form_model
    detereministic_result,  \* Farmer.detereministic_result (sic)
    extensive_form_results, \* Farmer.extensive_form_results
    reads,                  \* solution values pyo.value() was asked for
    predicted_yield,        \* the module global of mpi-sppy/farmer-3-scenarios.py
    num_scenarios,          \* the module global of mpi-sppy/farmer-n-scenarios-PH.py
    created,                \* what scenario_creator returned so far (mpi-sppy scripts)
    built,                  \* the last model built from a Farmer(predicted_yield, probability)
    vendor,                 \* the Vendor object of the news-vendor scripts
    warnings,               \* the warning categories issued so far
    scalar_model,           \* the module global model of farmer-scenario-representation.py
    solver_result,          \* the module global of farmer-scenario-representation.py
    rng                     \* how many variates the seeded numpy generator has produced

vars == <<script, pc, err, weathers, crop_yield, deterministic_model,
          extensive_form_model, detereministic_result, extensive_form_results,
          reads, predicted_yield, num_scenarios, created, built, vendor,
          warnings, scalar_model, solver_result, rng>>

----------------------------------------------------------------------------
(* Bounds *)

MaxScenarios == 3
MaxNumScenarios == 3
MaxSamples == 3
MaxCalls == 3

(* Number representation *)
MultDen == 100 * 100
BaseDen == 5 + 5
YieldDen == MultDen * BaseDen

----------------------------------------------------------------------------
(* Python values *)

Unbound == [bound |-> FALSE]
Bound(v) == [bound |-> TRUE, value |-> v]

NoAttr == [set |-> FALSE]
Attr(v) == [set |-> TRUE, value |-> v]

\* the argument of Farmer(...): its Python type and its text; a str is kept as
\* the one-element sequence holding its label
Str(s) == [type |-> "str", value |-> <<s>>]
StrOf(a) == a.value[1]
List(s) == [type |-> "list", value |-> s]
Tuple(s) == [type |-> "tuple", value |-> s]

KnownLabels == {"good", "fair", "bad"}
AllLabels == KnownLabels \cup {"stormy"}

Range(s) == {s[i] : i \in DOMAIN s}

DistinctSeqs(n) ==
    {s \in UNION {[1..k -> AllLabels] : k \in 0..n} :
        \A i, j \in DOMAIN s : i # j => s[i] # s[j]}

WeatherTypeInputs ==
    {Str(l) : l \in AllLabels}
        \cup {List(s) : s \in DistinctSeqs(MaxScenarios)}
        \cup {Tuple(<<l>>) : l \in {"fair"}}

----------------------------------------------------------------------------
(* Rationals and linear expressions *)

RatEq(a, b) == a[1] * b[2] = b[1] * a[2]

EmptyExpr == [v \in {} |-> 0]

Coef(e, v) == IF v \in DOMAIN e THEN e[v] ELSE 0

ExprAdd(e1, e2) == [v \in DOMAIN e1 \cup DOMAIN e2 |-> Coef(e1, v) + Coef(e2, v)]

ExprNeg(e) == [v \in DOMAIN e |-> 0 - e[v]]

RatCoef(e, v) == IF v \in DOMAIN e THEN e[v] ELSE <<0, 1>>

RatAdd(a, b) == <<a[1] * b[2] + b[1] * a[2], a[2] * b[2]>>

\* an integer expression as a rational one
ToRat(e) == [v \in DOMAIN e |-> <<e[v], 1>>]

\* (n/d) * e
RatScale(n, d, e) == [v \in DOMAIN e |-> <<n * e[v], d>>]

RatExprAdd(e1, e2) ==
    [v \in DOMAIN e1 \cup DOMAIN e2 |-> RatAdd(RatCoef(e1, v), RatCoef(e2, v))]

\* the variables of a model: x[c], w[p], y[p], and w[s, p], y[s, p] in the
\* extensive form; One carries the constant term of a constraint side
X(c) == <<"x", c>>
W(p) == <<"w", p>>
Y(p) == <<"y", p>>
WS(sp) == <<"w", sp[1], sp[2]>>
YS(sp) == <<"y", sp[1], sp[2]>>
One == <<"1">>

\* a number as a constraint coefficient, in units of 1/YieldDen
Scaled(k) == k * YieldDen

Term(v, k) == [u \in {v} |-> k]

\* the sum of the values of a function
RECURSIVE SumOn(_, _)
SumOn(f, S) ==
    IF S = {} THEN 0
    ELSE LET v == CHOOSE u \in S : TRUE IN f[v] + SumOn(f, S \ {v})

Sum(f) == SumOn(f, DOMAIN f)

\* sum(var[i] * coef[i] for i in index), var named by VarOf(i)
SumTerms(index, VarOf(_), CoefOf(_)) ==
    [v \in {VarOf(i) : i \in index} |->
        CoefOf(CHOOSE i \in index : VarOf(i) = v)]

----------------------------------------------------------------------------
(* Farmer attributes that do not change with the scenario *)

total_acres == 500
planting_cost == [wheat |-> 150, corn |-> 230, beets |-> 260]
planting_crops == {"wheat", "corn", "beets"}
selling_price == [wheat |-> 170, corn |-> 150, beets_favorable |-> 36,
                  beets_unfavorable |-> 10]
selling_crops == {"wheat", "corn", "beets_favorable", "beets_unfavorable"}
min_requirement == [wheat |-> 200, corn |-> 240]
purchase_price == [wheat |-> 238, corn |-> 210]
purchasing_crops == {"wheat", "corn"}
required_crops == purchasing_crops
beets_quota == 6000

----------------------------------------------------------------------------
(* examples/farmer-extensive-form.py: Farmer.__init__ *)

\* three consecutive ifs: a label that matches none leaves the name as it was
AssignPredictedYield(weather, previous) ==
    LET a == IF weather = "good" THEN Bound((12 * MultDen) \div 10) ELSE previous
        b == IF weather = "fair" THEN Bound(1 * MultDen) ELSE a
        c == IF weather = "bad" THEN Bound((8 * MultDen) \div 10) ELSE b
    IN  c

\* {"wheat":2.5*predicted_yield, "corn":3*predicted_yield, "beets":20*predicted_yield}
CropYieldDict(py) ==
    [wheat |-> 25 * py, corn |-> 30 * py, beets |-> 200 * py]

\* the for loop over the label list; predicted_yield is one local name of
\* __init__, carried from one iteration to the next
RECURSIVE ScenarioLoop(_, _, _, _)
ScenarioLoop(weather_types, i, py, acc) ==
    IF i > Len(weather_types)
    THEN [raised |-> "none", crop_yield_scenarios |-> acc]
    ELSE LET weather == weather_types[i]
             py2 == AssignPredictedYield(weather, py)
         IN  IF ~py2.bound
             THEN [raised |-> "UnboundLocalError", crop_yield_scenarios |-> acc]
             ELSE ScenarioLoop(weather_types, i + 1, py2,
                      [w \in DOMAIN acc \cup {weather} |->
                          IF w = weather THEN CropYieldDict(py2.value) ELSE acc[w]])

Farmer_init(weather_types) ==
    /\ script = "extensive"
    /\ pc = "start"
    /\ weathers' = weather_types
    /\ IF weather_types.type = "str"
       THEN LET py == AssignPredictedYield(StrOf(weather_types), Unbound)
            IN  IF py.bound
                THEN /\ crop_yield' = Attr(CropYieldDict(py.value))
                     /\ pc' = "ready"
                     /\ err' = "none"
                ELSE /\ crop_yield' = NoAttr
                     /\ pc' = "crashed"
                     /\ err' = "UnboundLocalError"
       ELSE IF weather_types.type = "list"
       THEN LET r == ScenarioLoop(weather_types.value, 1, Unbound, EmptyExpr)
            IN  IF r.raised = "none"
                THEN /\ crop_yield' = Attr(r.crop_yield_scenarios)
                     /\ pc' = "ready"
                     /\ err' = "none"
                ELSE /\ crop_yield' = NoAttr
                     /\ pc' = "crashed"
                     /\ err' = r.raised
       ELSE /\ crop_yield' = NoAttr
            /\ pc' = "ready"
            /\ err' = "none"
    /\ UNCHANGED <<script, scalar_model, solver_result, rng, built, vendor, warnings,
                   predicted_yield, num_scenarios, created, deterministic_model, extensive_form_model,
                   detereministic_result, extensive_form_results, reads>>

----------------------------------------------------------------------------
(* examples/farmer-extensive-form.py: Farmer.build_deterministic_model *)

Farmer_deterministic_obj ==
    ExprAdd(ExprAdd(SumTerms(planting_crops, X, LAMBDA c : planting_cost[c]),
                    ExprNeg(SumTerms(selling_crops, W, LAMBDA p : selling_price[p]))),
            SumTerms(purchasing_crops, Y, LAMBDA p : purchase_price[p]))

Farmer_deterministic_constraints(yield) ==
    {[name |-> "total_acreage_allowed", index |-> <<>>,
      lhs |-> SumTerms(planting_crops, X, LAMBDA c : Scaled(1)),
      sense |-> "<=",
      rhs |-> Term(One, Scaled(total_acres))]}
    \cup
    {[name |-> "minimum_requirement", index |-> <<required_crop>>,
      lhs |-> ExprAdd(ExprAdd(Term(X(required_crop), yield[required_crop]),
                              Term(Y(required_crop), Scaled(1))),
                      ExprNeg(Term(W(required_crop), Scaled(1)))),
      sense |-> ">=",
      rhs |-> Term(One, Scaled(min_requirement[required_crop]))]
        : required_crop \in required_crops}
    \cup
    {[name |-> "sugar_beet_mass_balance", index |-> <<>>,
      lhs |-> ExprAdd(Term(W("beets_favorable"), Scaled(1)),
                      Term(W("beets_unfavorable"), Scaled(1))),
      sense |-> "<=",
      rhs |-> Term(X("beets"), yield["beets"])]}
    \cup
    {[name |-> "sugar_beet_quota", index |-> <<>>,
      lhs |-> Term(W("beets_favorable"), Scaled(1)),
      sense |-> "<=",
      rhs |-> Term(One, Scaled(beets_quota))]}

\* a builder that adds the objective to the model the Farmer already holds
\* instead of starting from a fresh ConcreteModel
Farmer_deterministic_model_OnStored(yield) ==
    [x |-> {<<c>> : c \in planting_crops},
     w |-> {<<p>> : p \in selling_crops},
     y |-> {<<p>> : p \in purchasing_crops},
     within |-> "NonNegativeReals",
     obj |-> IF deterministic_model.set
             THEN ExprAdd(deterministic_model.value.obj, Farmer_deterministic_obj)
             ELSE Farmer_deterministic_obj,
     sense |-> "minimize",
     constraints |-> Farmer_deterministic_constraints(yield),
     values |-> "none"]

\* model = pyo.ConcreteModel() and the components declared on it
Farmer_deterministic_model(yield) ==
    [x |-> {<<c>> : c \in planting_crops},
     w |-> {<<p>> : p \in selling_crops},
     y |-> {<<p>> : p \in purchasing_crops},
     within |-> "NonNegativeReals",
     obj |-> Farmer_deterministic_obj,
     sense |-> "minimize",
     constraints |-> Farmer_deterministic_constraints(yield),
     values |-> "none"]

\* self.crop_yield[required_crop] needs a dict keyed by crop: the one a str
\* argument left; a list argument left a dict keyed by weather label
build_deterministic_model ==
    /\ script = "extensive"
    /\ pc = "ready"
    /\ IF ~crop_yield.set
       THEN /\ pc' = "crashed"
            /\ err' = "AttributeError"
            /\ UNCHANGED deterministic_model
       ELSE IF weathers.type # "str"
       THEN /\ pc' = "crashed"
            /\ err' = "KeyError"
            /\ UNCHANGED deterministic_model
       ELSE /\ deterministic_model' = Attr(Farmer_deterministic_model(crop_yield.value))
            /\ UNCHANGED <<pc, err>>
    /\ UNCHANGED <<script, scalar_model, solver_result, rng, built, vendor, warnings,
                   predicted_yield, num_scenarios, created, weathers, crop_yield, extensive_form_model,
                   detereministic_result, extensive_form_results, reads>>

----------------------------------------------------------------------------
(* examples/farmer-extensive-form.py: Farmer.build_extensive_form_model *)

\* the probability weight written into the objective
ObjectiveWeightNum == 1
ObjectiveWeightDen == 3

\* a planting term that is weighted like the second-stage terms
Farmer_extensive_planting_term_Weighted ==
    RatScale(ObjectiveWeightNum, ObjectiveWeightDen,
             SumTerms(planting_crops, X, LAMBDA c : planting_cost[c]))

\* sum(model.x[planted_crop]*self.planting_cost[planted_crop] ...), once
Farmer_extensive_planting_term ==
    ToRat(SumTerms(planting_crops, X, LAMBDA c : planting_cost[c]))

Farmer_extensive_obj(scenarios) ==
    RatExprAdd(
        RatExprAdd(
            Farmer_extensive_planting_term,
            RatScale(0 - ObjectiveWeightNum, ObjectiveWeightDen,
                     SumTerms(scenarios \X selling_crops, WS,
                              LAMBDA sp : selling_price[sp[2]]))),
        RatScale(ObjectiveWeightNum, ObjectiveWeightDen,
                 SumTerms(scenarios \X purchasing_crops, YS,
                          LAMBDA sp : purchase_price[sp[2]])))

Farmer_extensive_total_acreage_allowed ==
    {[name |-> "total_acreage_allowed", index |-> <<>>,
      lhs |-> SumTerms(planting_crops, X, LAMBDA c : Scaled(1)),
      sense |-> "<=",
      rhs |-> Term(One, Scaled(total_acres))]}

Farmer_extensive_minimum_requirement(scenarios, yield) ==
    {[name |-> "minimum_requirement", index |-> sc,
      lhs |-> ExprAdd(ExprAdd(Term(X(sc[2]), yield[sc[1]][sc[2]]),
                              Term(YS(sc), Scaled(1))),
                      ExprNeg(Term(WS(sc), Scaled(1)))),
      sense |-> ">=",
      rhs |-> Term(One, Scaled(min_requirement[sc[2]]))]
        : sc \in scenarios \X required_crops}

\* a mass balance that pools the beets sold in all scenarios
Farmer_extensive_sugar_beet_mass_balance_Pooled(scenarios, yield) ==
    {[name |-> "sugar_beet_mass_balance", index |-> <<weather>>,
      lhs |-> ExprAdd(SumTerms(scenarios \X {"beets_favorable"}, WS,
                               LAMBDA sp : Scaled(1)),
                      SumTerms(scenarios \X {"beets_unfavorable"}, WS,
                               LAMBDA sp : Scaled(1))),
      sense |-> "<=",
      rhs |-> Term(X("beets"), yield[weather]["beets"])]
        : weather \in scenarios}

Farmer_extensive_sugar_beet_mass_balance(scenarios, yield) ==
    {[name |-> "sugar_beet_mass_balance", index |-> <<weather>>,
      lhs |-> ExprAdd(Term(WS(<<weather, "beets_favorable">>), Scaled(1)),
                      Term(WS(<<weather, "beets_unfavorable">>), Scaled(1))),
      sense |-> "<=",
      rhs |-> Term(X("beets"), yield[weather]["beets"])]
        : weather \in scenarios}

\* a quota written for one scenario only
Farmer_extensive_sugar_beet_quota_FirstOnly(scenarios) ==
    {[name |-> "sugar_beet_quota", index |-> <<weather>>,
      lhs |-> Term(WS(<<weather, "beets_favorable">>), Scaled(1)),
      sense |-> "<=",
      rhs |-> Term(One, Scaled(beets_quota))]
        : weather \in IF scenarios = {} THEN {}
                      ELSE {CHOOSE weather \in scenarios : TRUE}}

Farmer_extensive_sugar_beet_quota(scenarios) ==
    {[name |-> "sugar_beet_quota", index |-> <<weather>>,
      lhs |-> Term(WS(<<weather, "beets_favorable">>), Scaled(1)),
      sense |-> "<=",
      rhs |-> Term(One, Scaled(beets_quota))]
        : weather \in scenarios}

Farmer_extensive_constraints(scenarios, yield) ==
    Farmer_extensive_total_acreage_allowed
        \cup Farmer_extensive_minimum_requirement(scenarios, yield)
        \cup Farmer_extensive_sugar_beet_mass_balance(scenarios, yield)
        \cup Farmer_extensive_sugar_beet_quota(scenarios)

\* land variables that carry a scenario index
Farmer_extensive_x_index_PerScenario(scenarios) == scenarios \X planting_crops

\* pyo.Var(self.planting_crops, ...): the index set of model.x
Farmer_extensive_x_index(scenarios) == {<<c>> : c \in planting_crops}

Farmer_extensive_model(scenarios, yield) ==
    [x |-> Farmer_extensive_x_index(scenarios),
     w |-> scenarios \X selling_crops,
     y |-> scenarios \X purchasing_crops,
     within |-> "NonNegativeReals",
     obj |-> Farmer_extensive_obj(scenarios),
     sense |-> "minimize",
     constraints |-> Farmer_extensive_constraints(scenarios, yield),
     values |-> "none"]

\* self.crop_yield[weather][required_crop] needs the dict of dicts a list
\* argument left; after a str argument crop_yield is keyed by crop and the
\* constraint rule raises
build_extensive_form_model ==
    /\ script = "extensive"
    /\ pc = "ready"
    /\ IF ~crop_yield.set
       THEN /\ pc' = "crashed"
            /\ err' = "AttributeError"
            /\ UNCHANGED extensive_form_model
       ELSE IF weathers.type # "list"
       THEN /\ pc' = "crashed"
            /\ err' = "KeyError"
            /\ UNCHANGED extensive_form_model
       ELSE /\ extensive_form_model' =
                   Attr(Farmer_extensive_model(Range(weathers.value), crop_yield.value))
            /\ UNCHANGED <<pc, err>>
    /\ UNCHANGED <<script, scalar_model, solver_result, rng, built, vendor, warnings,
                   predicted_yield, num_scenarios, created, weathers, crop_yield, deterministic_model,
                   detereministic_result, extensive_form_results, reads>>

----------------------------------------------------------------------------
(* examples/farmer-extensive-form.py: Farmer.solve_pyomo_model, show_results *)

\* what the external solver can answer; the code never looks at it
SolverStatuses == {"optimal", "infeasible", "unbounded"}

\* opt.solve(model): the solver's answer, and the solution loaded into the
\* model's variables when there is one
Solved(model, status) ==
    [model EXCEPT !.values = IF status = "optimal" THEN "loaded" ELSE @]

solve_pyomo_model(which, status) ==
    /\ script = "extensive"
    /\ pc = "ready"
    /\ CASE which = "deterministic" ->
              /\ IF ~deterministic_model.set
                 THEN /\ pc' = "crashed"
                      /\ err' = "AttributeError"
                      /\ UNCHANGED <<deterministic_model, detereministic_result>>
                 ELSE /\ deterministic_model' =
                             Attr(Solved(deterministic_model.value, status))
                      /\ detereministic_result' = Attr(status)
                      /\ UNCHANGED <<pc, err>>
              /\ UNCHANGED <<extensive_form_model, extensive_form_results>>
         [] which = "extensive" ->
              /\ IF ~extensive_form_model.set
                 THEN /\ pc' = "crashed"
                      /\ err' = "AttributeError"
                      /\ UNCHANGED <<extensive_form_model, extensive_form_results>>
                 ELSE /\ extensive_form_model' =
                             Attr(Solved(extensive_form_model.value, status))
                      /\ extensive_form_results' = Attr(status)
                      /\ UNCHANGED <<pc, err>>
              /\ UNCHANGED <<deterministic_model, detereministic_result>>
         [] OTHER ->
              UNCHANGED <<pc, err, deterministic_model, detereministic_result,
                          extensive_form_model, extensive_form_results>>
    /\ UNCHANGED <<script, scalar_model, solver_result, rng, built, vendor, warnings,
                   predicted_yield, num_scenarios, created, weathers, crop_yield, reads>>

\* the status of the last solve of a model, for the log of reads
StatusOf(result) == IF result.set THEN result.value ELSE "unsolved"

\* a pyo.value(...) that returns None for a variable without a value
ValuesLoaded_NoException(model) == TRUE

\* pyo.value(...) returns a number only for variables a solution was loaded into
ValuesLoaded(model) == model.values = "loaded"

\* pyo.value(...) of the model's variables and objective: every call is
\* logged with the status of the model's last solve and with whether it
\* returned values; it raises when no solution was ever loaded into the
\* variables
show_results(which) ==
    /\ script = "extensive"
    /\ pc = "ready"
    /\ CASE which = "deterministic" ->
              IF ~deterministic_model.set
              THEN /\ pc' = "crashed"
                   /\ err' = "AttributeError"
                   /\ UNCHANGED reads
              ELSE /\ reads' = reads \cup
                          {[which |-> which, status |-> StatusOf(detereministic_result),
                            ok |-> ValuesLoaded(deterministic_model.value)]}
                   /\ IF ValuesLoaded(deterministic_model.value)
                      THEN UNCHANGED <<pc, err>>
                      ELSE /\ pc' = "crashed"
                           /\ err' = "ValueError"
         [] which = "extensive" ->
              IF ~extensive_form_model.set
              THEN /\ pc' = "crashed"
                   /\ err' = "AttributeError"
                   /\ UNCHANGED reads
              ELSE /\ reads' = reads \cup
                          {[which |-> which, status |-> StatusOf(extensive_form_results),
                            ok |-> ValuesLoaded(extensive_form_model.value)]}
                   /\ IF ValuesLoaded(extensive_form_model.value)
                      THEN UNCHANGED <<pc, err>>
                      ELSE /\ pc' = "crashed"
                           /\ err' = "ValueError"
         [] OTHER -> UNCHANGED <<pc, err, reads>>
    /\ UNCHANGED <<script, scalar_model, solver_result, rng, built, vendor, warnings,
                   predicted_yield, num_scenarios, created, weathers, crop_yield, deterministic_model,
                   extensive_form_model, detereministic_result,
                   extensive_form_results>>

WhichInputs == {"deterministic", "extensive", "other"}

----------------------------------------------------------------------------
(* mpi-sppy/farmer-3-scenarios.py *)

\* an assignment that gives bad weather the fair multiplier
mpi3_AssignPredictedYield_BadAsFair(weather_type, previous) ==
    IF weather_type \in {"fair", "bad"} THEN Bound(1 * MultDen)
    ELSE IF weather_type = "good" THEN Bound((12 * MultDen) \div 10)
    ELSE previous

\* the three ifs on the global predicted_yield: a label that matches none
\* leaves the global as the previous call left it
mpi3_AssignPredictedYield(weather_type, previous) ==
    LET a == IF weather_type = "good" THEN Bound((12 * MultDen) \div 10) ELSE previous
        b == IF weather_type = "fair" THEN Bound(1 * MultDen) ELSE a
        c == IF weather_type = "bad" THEN Bound((8 * MultDen) \div 10) ELSE b
    IN  c

\* the attributes Farmer.__init__ sets, from the value of predicted_yield
mpi3_Farmer(py) ==
    [crop_yield |-> [wheat |-> 25 * py, corn |-> 30 * py, beets |-> 200 * py],
     total_acres |-> total_acres,
     planting_cost |-> planting_cost,
     planting_crops |-> planting_crops,
     selling_price |-> selling_price,
     selling_crops |-> selling_crops,
     min_requirement |-> min_requirement,
     purchase_price |-> purchase_price,
     purchasing_crops |-> purchasing_crops,
     required_crops |-> purchasing_crops,
     beets_quota |-> beets_quota]

\* an objective that adds the selling term
mpi3_obj_PlusSelling(planting, selling, puchasing) ==
    ExprAdd(ExprAdd(planting, selling), puchasing)

\* model.obj = planting_cost - selling_cost + puchasing_cost
mpi3_obj(planting, selling, puchasing) ==
    ExprAdd(ExprAdd(planting, ExprNeg(selling)), puchasing)

\* a minimum requirement that forgets the tons sold
mpi3_minimum_requirement_NoSales(scenario, required_crop) ==
    [name |-> "minimum_requirement", index |-> <<required_crop>>,
     lhs |-> ExprAdd(Term(X(required_crop), scenario.crop_yield[required_crop]),
                     Term(Y(required_crop), Scaled(1))),
     sense |-> ">=",
     rhs |-> Term(One, Scaled(scenario.min_requirement[required_crop]))]

\* a minimum requirement that forgets the tons purchased
mpi3_minimum_requirement_NoPurchase(scenario, required_crop) ==
    [name |-> "minimum_requirement", index |-> <<required_crop>>,
     lhs |-> ExprAdd(Term(X(required_crop), scenario.crop_yield[required_crop]),
                     ExprNeg(Term(W(required_crop), Scaled(1)))),
     sense |-> ">=",
     rhs |-> Term(One, Scaled(scenario.min_requirement[required_crop]))]

\* (x * crop_yield + y - w >= min_requirement) for a required crop
mpi3_minimum_requirement(scenario, required_crop) ==
    [name |-> "minimum_requirement", index |-> <<required_crop>>,
     lhs |-> ExprAdd(ExprAdd(Term(X(required_crop), scenario.crop_yield[required_crop]),
                             Term(Y(required_crop), Scaled(1))),
                     ExprNeg(Term(W(required_crop), Scaled(1)))),
     sense |-> ">=",
     rhs |-> Term(One, Scaled(scenario.min_requirement[required_crop]))]

mpi3_constraints(scenario) ==
    {[name |-> "total_acreage_allowed", index |-> <<>>,
      lhs |-> SumTerms(scenario.planting_crops, X, LAMBDA c : Scaled(1)),
      sense |-> "<=",
      rhs |-> Term(One, Scaled(scenario.total_acres))]}
    \cup
    {mpi3_minimum_requirement(scenario, required_crop)
        : required_crop \in scenario.required_crops}
    \cup
    {[name |-> "sugar_beet_mass_balance", index |-> <<>>,
      lhs |-> ExprAdd(Term(W("beets_favorable"), Scaled(1)),
                      Term(W("beets_unfavorable"), Scaled(1))),
      sense |-> "<=",
      rhs |-> Term(X("beets"), scenario.crop_yield["beets"])]}
    \cup
    {[name |-> "sugar_beet_quota", index |-> <<>>,
      lhs |-> Term(W("beets_favorable"), Scaled(1)),
      sense |-> "<=",
      rhs |-> Term(One, Scaled(scenario.beets_quota))]}

mpi3_build_deterministic_model(scenario) ==
    LET planting == SumTerms(scenario.planting_crops, X,
                             LAMBDA c : scenario.planting_cost[c])
        selling == SumTerms(scenario.selling_crops, W,
                            LAMBDA p : scenario.selling_price[p])
        puchasing == SumTerms(scenario.purchasing_crops, Y,
                              LAMBDA p : scenario.purchase_price[p])
    IN  [x |-> {<<c>> : c \in scenario.planting_crops},
         w |-> {<<p>> : p \in scenario.selling_crops},
         y |-> {<<p>> : p \in scenario.purchasing_crops},
         within |-> "NonNegativeReals",
         planting_cost |-> planting,
         selling_cost |-> selling,
         puchasing_cost |-> puchasing,
         obj |-> mpi3_obj(planting, selling, puchasing),
         sense |-> "minimize",
         constraints |-> mpi3_constraints(scenario),
         values |-> "none"]

\* a root node whose cost expression is the whole objective
mpi3_attach_TotalCost(model) ==
    [model |-> model,
     root_node |-> [cost_expression |-> model.obj,
                    nonant_list |-> <<"x">>],
     probability |-> <<1, 3>>]

\* sputils.attach_root_node(model, model.planting_cost, [model.x]) and
\* model._mpisppy_probability = 1.0 / 3
mpi3_attach(model) ==
    [model |-> model,
     root_node |-> [cost_expression |-> model.planting_cost,
                    nonant_list |-> <<"x">>],
     probability |-> <<1, 3>>]

\* all_scenarios of the main block
mpi3_all_scenarios == <<"good", "fair", "bad">>

mpi3_scenario_creator(scenario) ==
    /\ script = "mpi3"
    /\ pc # "crashed"
    /\ LET py == mpi3_AssignPredictedYield(scenario, predicted_yield)
       IN  IF ~py.bound
           THEN /\ pc' = "crashed"
                /\ err' = "NameError"
                /\ UNCHANGED <<predicted_yield, created>>
           ELSE LET farmer_scenario == mpi3_Farmer(py.value)
                    model == mpi3_build_deterministic_model(farmer_scenario)
                IN  /\ predicted_yield' = py
                    /\ created' = created \cup
                           {[scenario |-> <<scenario>>,
                             farmer |-> farmer_scenario] @@ mpi3_attach(model)}
                    /\ pc' = "ready"
                    /\ UNCHANGED err
    /\ UNCHANGED <<script, scalar_model, solver_result, rng, built, vendor, warnings,
                   num_scenarios, weathers, crop_yield, deterministic_model,
                   extensive_form_model, detereministic_result,
                   extensive_form_results, reads>>

----------------------------------------------------------------------------
(* mpi-sppy/farmer-n-scenarios-PH.py *)

ph_Farmer(py, probability) ==
    [probability |-> probability,
     crop_yield |-> [wheat |-> 25 * py, corn |-> 30 * py, beets |-> 200 * py],
     total_acres |-> total_acres,
     planting_cost |-> planting_cost,
     planting_crops |-> planting_crops,
     selling_price |-> selling_price,
     selling_crops |-> selling_crops,
     min_requirement |-> min_requirement,
     purchase_price |-> purchase_price,
     purchasing_crops |-> purchasing_crops,
     required_crops |-> purchasing_crops,
     beets_quota |-> beets_quota]

\* the function is, line for line, the one of farmer-3-scenarios.py
ph_build_deterministic_model(scenario) == mpi3_build_deterministic_model(scenario)

\* mu, z * sigma, in units of 1/MultDen
ph_mu == 1 * MultDen
ph_z_sigma == (2576 * MultDen) \div 10000

\* sorted(np.linspace(mu + z*sigma, mu - z*sigma, n + 1))[j], j from 0, times n
ph_bin_times_n(n, j) == (ph_mu - ph_z_sigma) * n + j * 2 * ph_z_sigma

\* ss.norm.cdf(bins[j], loc=mu, scale=sigma) for n bins, in units of 1/MultDen:
\* the standard normal distribution function at -2.576 + j * 5.152 / n
ph_norm_cdf(n, j) ==
    LET table == << <<50, 9950>>,
                    <<50, 5000, 9950>>,
                    <<50, 1953, 8047, 9950>>,
                    <<50, 989, 5000, 9011, 9950>>,
                    <<50, 611, 3032, 6968, 9389, 9950>>,
                    <<50, 430, 1953, 5000, 8047, 9570, 9950>> >>
    IN  table[n][j + 1]

\* cdfs[bin_num] and total of the loop over the bins
ph_cdfs(n, bin_num) == ph_norm_cdf(n, bin_num + 1) - ph_norm_cdf(n, bin_num)
ph_total(n) == Sum([bin_num \in 0..(n - 1) |-> ph_cdfs(n, bin_num)])

\* probabilities[bin_num] = cdfs[bin_num] / total
ph_probabilities(n, bin_num) == <<ph_cdfs(n, bin_num), ph_total(n)>>

\* np.random.seed(42): the variates the module's generator produces, in
\* order, in units of 1/MultDen (0.3745401188, 0.9507143064, 0.7319939418,
\* 0.5986584842, 0.1560186404, 0.1559945203)
ph_uniform == <<3745, 9507, 7320, 5987, 1560, 1560>>

\* ss.truncnorm.rvs(a=bins[k], b=bins[k+1]) for n bins when the generator has
\* produced i variates: the point of the standard normal distribution
\* truncated to the bin at which its distribution function is the next
\* variate ph_uniform[i + 1], in units of 1/MultDen
ph_truncnorm_rvs(n, k, i) ==
    LET table ==
          << << <<9069, 12243, 10908, 10182, 8082, 8082>> >>,
             << <<8324, 9858, 9250, 8895, 7791, 7791>>,
                <<10881, 12429, 11808, 11450, 10357, 10357>> >>,
             << <<8039, 9051, 8656, 8422, 7677, 7677>>,
                <<9751, 10767, 10368, 10134, 9391, 9391>>,
                <<11462, 12483, 12080, 11845, 11105, 11105>> >>,
             << <<7891, 8645, 8353, 8179, 7617, 7616>>,
                <<9177, 9933, 9639, 9464, 8903, 8903>>,
                <<10462, 11220, 10925, 10750, 10190, 10190>>,
                <<11748, 12508, 12211, 12035, 11477, 11477>> >>,
             << <<7800, 8402, 8170, 8031, 7579, 7579>>,
                <<8829, 9432, 9199, 9060, 8609, 8609>>,
                <<9858, 10462, 10228, 10089, 9639, 9639>>,
                <<10888, 11492, 11258, 11118, 10669, 10669>>,
                <<11917, 12522, 12287, 12147, 11698, 11698>> >> >>
    IN  table[n][k + 1][i + 1]

\* scenario_creator(str(scenario_num)); the draw moves the generator on
ph_scenario_creator(scenario_num) ==
    /\ script = "ph"
    /\ pc # "crashed"
    /\ rng < MaxCalls
    /\ LET predicted == ph_truncnorm_rvs(num_scenarios, scenario_num, rng)
           probability == ph_probabilities(num_scenarios, scenario_num)
           farmer_scenario == ph_Farmer(predicted, probability)
           model == ph_build_deterministic_model(farmer_scenario)
       IN  created' = created \cup
               {[scenario |-> <<scenario_num>>,
                 farmer |-> farmer_scenario,
                 model |-> model,
                 root_node |-> [cost_expression |-> model.planting_cost,
                                nonant_list |-> <<"x">>],
                 probability |-> probability]}
    /\ rng' = rng + 1
    /\ pc' = "ready"
    /\ UNCHANGED <<script, scalar_model, solver_result, built, vendor, warnings,
                   err, predicted_yield, num_scenarios, weathers, crop_yield,
                   deterministic_model, extensive_form_model,
                   detereministic_result, extensive_form_results, reads>>

\* arguments of Farmer(predicted_yield, probability) for a model built
\* outside scenario_creator: a yield of 0, a half and a full fair yield
ph_yield_arguments == {0, MultDen \div 2, MultDen}
ph_probability_arguments == {<<1, 2>>, <<1, 1>>}

\* build_deterministic_model(Farmer(predicted_yield, probability))
ph_Farmer_build(py, probability) ==
    /\ script = "ph"
    /\ pc # "crashed"
    /\ LET farmer_scenario == ph_Farmer(py, probability)
       IN  built' = Attr([farmer |-> farmer_scenario,
                          model |-> ph_build_deterministic_model(farmer_scenario)])
    /\ pc' = "ready"
    /\ UNCHANGED <<script, scalar_model, solver_result, rng, vendor, warnings, err, predicted_yield, num_scenarios,
                   created, weathers, crop_yield, deterministic_model,
                   extensive_form_model, detereministic_result,
                   extensive_form_results, reads>>

----------------------------------------------------------------------------
(* examples/news-vendor/news-vendor-sampling.py *)

\* values np.around(np.random.uniform(low=50, high=150)) can return
DemandValues == {50, 100, 150}

\* the lists np.around(np.random.uniform(..., size=num_scenarios)).tolist()
\* can return
DemandLists(n) == [1..n -> DemandValues]

\* list.count
Count(list, value) == Cardinality({i \in DOMAIN list : list[i] = value})

\* a probability table that gives every distinct demand the weight of one draw
Vendor_p_Uniform(demand, n) ==
    [d \in Range(demand) |-> <<1, n>>]

\* self.p[demand] = self.demand.count(demand) / self.num_scenarios for every
\* demand of sorted(set(self.demand)), as the rational <<count, num_scenarios>>
Vendor_p(demand, n) ==
    [d \in Range(demand) |-> <<Count(demand, d), n>>]

Vendor_init(n, drawn) ==
    /\ script = "sampling"
    /\ pc = "start"
    /\ drawn \in DemandLists(n)
    /\ vendor' = Attr([c |-> 10, q |-> 25, r |-> 5,
                       num_scenarios |-> n,
                       demand |-> drawn,
                       p |-> Vendor_p(drawn, n),
                       model |-> NoAttr,
                       results |-> NoAttr])
    /\ pc' = "ready"
    /\ UNCHANGED <<script, scalar_model, solver_result, rng, built, warnings, err, predicted_yield, num_scenarios,
                   created, weathers, crop_yield, deterministic_model,
                   extensive_form_model, detereministic_result,
                   extensive_form_results, reads>>

\* the variables of the vendor's model: x, y[demand], w[demand]
Vendor_x == <<"x">>
Vendor_y(demand) == <<"y", demand>>
Vendor_w(demand) == <<"w", demand>>

\* sum((-self.p[demand]) * var[demand] * price for demand in self.demand):
\* one term for every element of the list, from element i on; var is "y" or "w"
RECURSIVE Vendor_sum(_, _, _, _)
Vendor_sum(self, var, price, i) ==
    IF i > Len(self.demand) THEN EmptyExpr
    ELSE LET demand == self.demand[i]
             term == <<(0 - self.p[demand][1]) * price, self.p[demand][2]>>
         IN  RatExprAdd(Term(<<var, demand>>, term),
                        Vendor_sum(self, var, price, i + 1))

\* model.x * self.c + the sum over y * self.q + the sum over w * self.r
Vendor_obj(self) ==
    RatExprAdd(RatExprAdd(Term(Vendor_x, <<self.c, 1>>),
                          Vendor_sum(self, "y", self.q, 1)),
               Vendor_sum(self, "w", self.r, 1))

Vendor_constraints(self) ==
    {[name |-> "balance_sold_papers_rule", index |-> <<demand>>,
      lhs |-> Term(Vendor_y(demand), 1),
      sense |-> "<=",
      rhs |-> Term(One, demand)] : demand \in Range(self.demand)}
    \cup
    {[name |-> "overall_newspaper_balance_rule", index |-> <<demand>>,
      lhs |-> ExprAdd(Term(Vendor_y(demand), 1), Term(Vendor_w(demand), 1)),
      sense |-> "<=",
      rhs |-> Term(Vendor_x, 1)] : demand \in Range(self.demand)}

\* pyo.Var(self.demand, ...): the index set keeps one member for a demand
\* that the list repeats
Vendor_model(self) ==
    [x |-> {<<>>},
     y |-> {<<demand>> : demand \in Range(self.demand)},
     w |-> {<<demand>> : demand \in Range(self.demand)},
     within |-> "NonNegativeIntegers",
     obj |-> Vendor_obj(self),
     sense |-> "minimize",
     constraints |-> Vendor_constraints(self),
     values |-> "none"]

Vendor_build_model ==
    /\ script = "sampling"
    /\ pc = "ready"
    /\ vendor' = Attr([vendor.value EXCEPT !.model = Attr(Vendor_model(vendor.value))])
    /\ UNCHANGED <<script, scalar_model, solver_result, rng, built, warnings, pc, err, predicted_yield,
                   num_scenarios, created, weathers, crop_yield,
                   deterministic_model, extensive_form_model,
                   detereministic_result, extensive_form_results, reads>>

\* self.results = solver.solve(self.model, tee=True)
Vendor_solve_model(status) ==
    /\ script = "sampling"
    /\ pc = "ready"
    /\ IF ~vendor.value.model.set
       THEN /\ pc' = "crashed"
            /\ err' = "AttributeError"
            /\ UNCHANGED vendor
       ELSE /\ vendor' = Attr([vendor.value EXCEPT
                                  !.model = Attr(Solved(@.value, status)),
                                  !.results = Attr(status)])
            /\ UNCHANGED <<pc, err>>
    /\ UNCHANGED <<script, scalar_model, solver_result, rng, built, warnings, predicted_yield, num_scenarios,
                   created, weathers, crop_yield, deterministic_model,
                   extensive_form_model, detereministic_result,
                   extensive_form_results, reads>>

----------------------------------------------------------------------------
(* examples/news-vendor.py *)

\* the arrays np.around(np.random.uniform(low=50, high=150, size=num_scenarios))
\* can return
nv_DemandArrays(n) == [1..n -> DemandValues]

nv_Vendor_init(n, drawn) ==
    /\ script = "newsvendor"
    /\ pc = "start"
    /\ drawn \in nv_DemandArrays(n)
    /\ vendor' = Attr([c |-> 10, q |-> 25, r |-> 5,
                       num_scenarios |-> n,
                       y |-> drawn,
                       model |-> NoAttr,
                       results |-> NoAttr])
    /\ pc' = "ready"
    /\ UNCHANGED <<script, scalar_model, solver_result, rng, built, warnings, err, predicted_yield, num_scenarios,
                   created, weathers, crop_yield, deterministic_model,
                   extensive_form_model, detereministic_result,
                   extensive_form_results, reads>>

\* the index set of model.w = pyo.Var(self.y, ...): the distinct demands
nv_w_index(self) == Range(self.y)

\* (-1/model.p) * sum(y * self.q for y in self.y): a number, model.p being
\* the Param whose value is num_scenarios
nv_sold_term(self) ==
    Term(One, <<0 - Sum([i \in DOMAIN self.y |-> self.y[i] * self.q]),
                self.num_scenarios>>)

\* (-1/model.p) * sum(w * self.r for w in model.w): iterating an indexed Var
\* gives its indices, so w is a demand and the term is a number
nv_leftover_term(self) ==
    Term(One, <<0 - Sum([w \in nv_w_index(self) |-> w * self.r]),
                self.num_scenarios>>)

nv_obj(self) ==
    RatExprAdd(RatExprAdd(Term(Vendor_x, <<self.c, 1>>), nv_sold_term(self)),
               nv_leftover_term(self))

nv_constraints(self) ==
    {[name |-> "overall_newspaper_balance", index |-> <<y>>,
      lhs |-> ExprAdd(Term(One, y), Term(Vendor_w(y), 1)),
      sense |-> "<=",
      rhs |-> Term(Vendor_x, 1)] : y \in Range(self.y)}
    \cup
    {[name |-> "leftover_newspaper_balance", index |-> <<y>>,
      lhs |-> Term(Vendor_w(y), 1),
      sense |-> "==",
      rhs |-> ExprAdd(Term(Vendor_x, 1), Term(One, 0 - y))] : y \in Range(self.y)}

nv_Vendor_model(self) ==
    [p |-> self.num_scenarios,
     x |-> {<<>>},
     w |-> {<<y>> : y \in nv_w_index(self)},
     within |-> "NonNegativeIntegers",
     obj |-> nv_obj(self),
     sense |-> "minimize",
     constraints |-> nv_constraints(self),
     values |-> "none"]

nv_Vendor_build_model ==
    /\ script = "newsvendor"
    /\ pc = "ready"
    /\ vendor' = Attr([vendor.value EXCEPT !.model = Attr(nv_Vendor_model(vendor.value))])
    /\ UNCHANGED <<script, scalar_model, solver_result, rng, built, warnings, pc, err, predicted_yield,
                   num_scenarios, created, weathers, crop_yield,
                   deterministic_model, extensive_form_model,
                   detereministic_result, extensive_form_results, reads>>

\* self.results = solver.solve(self.model, tee=True)
nv_Vendor_solve_model(status) ==
    /\ script = "newsvendor"
    /\ pc = "ready"
    /\ IF ~vendor.value.model.set
       THEN /\ pc' = "crashed"
            /\ err' = "AttributeError"
            /\ UNCHANGED vendor
       ELSE /\ vendor' = Attr([vendor.value EXCEPT
                                  !.model = Attr(Solved(@.value, status)),
                                  !.results = Attr(status)])
            /\ UNCHANGED <<pc, err>>
    /\ UNCHANGED <<script, scalar_model, solver_result, rng, built, warnings, predicted_yield, num_scenarios,
                   created, weathers, crop_yield, deterministic_model,
                   extensive_form_model, detereministic_result,
                   extensive_form_results, reads>>

----------------------------------------------------------------------------
(* farmer-scenario-representation.py: module-level code *)

\* the nine scalar variables
Scalar(name) == <<name>>
scalar_vars == {Scalar(n) : n \in {"x1", "x2", "x3", "w1", "w2", "w3", "w4", "y1", "y2"}}

\* the pyo.Param values; the yields in units of 1/BaseDen
scalar_params ==
    [total_acres |-> 500,
     x1_yield |-> 25, x2_yield |-> 30, x3_yield |-> 200,
     x1_planting_cost |-> 150, x2_planting_cost |-> 230, x3_planting_cost |-> 260,
     w1_selling_price |-> 170, w2_selling_price |-> 150,
     w3_selling_price |-> 36, w4_selling_price |-> 10,
     x1_min_requirement |-> 200, x2_min_requirement |-> 240,
     y1_purchase_price |-> 238, y2_purchase_price |-> 210,
     x3_quota |-> 6000]

\* a yield parameter as a constraint coefficient, in units of 1/YieldDen
YieldCoef(tenths) == tenths * MultDen

\* an objective that charges for the unfavourably priced beets
scalar_obj_ChargingW4 ==
    LET p == scalar_params
    IN  (Scalar("x1") :> p.x1_planting_cost) @@ (Scalar("x2") :> p.x2_planting_cost)
          @@ (Scalar("x3") :> p.x3_planting_cost)
          @@ (Scalar("y1") :> p.y1_purchase_price) @@ (Scalar("w1") :> 0 - p.w1_selling_price)
          @@ (Scalar("y2") :> p.y2_purchase_price) @@ (Scalar("w2") :> 0 - p.w2_selling_price)
          @@ (Scalar("w3") :> 0 - p.w3_selling_price) @@ (Scalar("w4") :> p.w4_selling_price)

scalar_obj ==
    LET p == scalar_params
    IN  (Scalar("x1") :> p.x1_planting_cost) @@ (Scalar("x2") :> p.x2_planting_cost)
          @@ (Scalar("x3") :> p.x3_planting_cost)
          @@ (Scalar("y1") :> p.y1_purchase_price) @@ (Scalar("w1") :> 0 - p.w1_selling_price)
          @@ (Scalar("y2") :> p.y2_purchase_price) @@ (Scalar("w2") :> 0 - p.w2_selling_price)
          @@ (Scalar("w3") :> 0 - p.w3_selling_price) @@ (Scalar("w4") :> 0 - p.w4_selling_price)

scalar_constraints ==
    LET p == scalar_params
    IN  {[name |-> "total_acreage_allowed", index |-> <<>>,
          lhs |-> (Scalar("x1") :> Scaled(1)) @@ (Scalar("x2") :> Scaled(1))
                    @@ (Scalar("x3") :> Scaled(1)),
          sense |-> "<=",
          rhs |-> Term(One, Scaled(p.total_acres))],
         [name |-> "minimum_wheat_requirement", index |-> <<>>,
          lhs |-> (Scalar("x1") :> YieldCoef(p.x1_yield)) @@ (Scalar("y1") :> Scaled(1))
                    @@ (Scalar("w1") :> 0 - Scaled(1)),
          sense |-> ">=",
          rhs |-> Term(One, Scaled(p.x1_min_requirement))],
         [name |-> "minimum_corn_requirement", index |-> <<>>,
          lhs |-> (Scalar("x2") :> YieldCoef(p.x2_yield)) @@ (Scalar("y2") :> Scaled(1))
                    @@ (Scalar("w2") :> 0 - Scaled(1)),
          sense |-> ">=",
          rhs |-> Term(One, Scaled(p.x2_min_requirement))],
         [name |-> "sugar_beet_mass_balance", index |-> <<>>,
          lhs |-> (Scalar("w3") :> Scaled(1)) @@ (Scalar("w4") :> Scaled(1)),
          sense |-> "<=",
          rhs |-> Term(Scalar("x3"), YieldCoef(p.x3_yield))],
         [name |-> "sugar_beet_quota", index |-> <<>>,
          lhs |-> Term(Scalar("w3"), Scaled(1)),
          sense |-> "<=",
          rhs |-> Term(One, Scaled(p.x3_quota))]}

scalar_pyomo_model ==
    [vars |-> scalar_vars,
     within |-> "NonNegativeReals",
     params |-> scalar_params,
     obj |-> scalar_obj,
     sense |-> "minimize",
     constraints |-> scalar_constraints,
     values |-> "none"]

\* lines 21-109: the model is declared
scalar_build ==
    /\ script = "scalar"
    /\ pc = "start"
    /\ scalar_model' = Bound(scalar_pyomo_model)
    /\ pc' = "ready"
    /\ UNCHANGED <<script, solver_result, rng, built, vendor, warnings, err,
                   predicted_yield, num_scenarios, created, weathers, crop_yield,
                   deterministic_model, extensive_form_model,
                   detereministic_result, extensive_form_results, reads>>

\* solver_result = opt.solve(model, tee=True)
scalar_solve(status) ==
    /\ script = "scalar"
    /\ pc = "ready"
    /\ ~solver_result.bound
    /\ scalar_model' = Bound(Solved(scalar_model.value, status))
    /\ solver_result' = Bound(status)
    /\ UNCHANGED <<script, rng, built, vendor, warnings, pc, err,
                   predicted_yield, num_scenarios, created, weathers, crop_yield,
                   deterministic_model, extensive_form_model,
                   detereministic_result, extensive_form_results, reads>>

\* the prints of pyo.value(...), whatever the solver answered
scalar_show ==
    /\ script = "scalar"
    /\ pc = "ready"
    /\ solver_result.bound
    /\ reads' = reads \cup {[which |-> "scalar", status |-> solver_result.value,
                             ok |-> ValuesLoaded(scalar_model.value)]}
    /\ IF ValuesLoaded(scalar_model.value)
       THEN /\ pc' = "done"
            /\ UNCHANGED err
       ELSE /\ pc' = "crashed"
            /\ err' = "ValueError"
    /\ UNCHANGED <<script, scalar_model, solver_result, rng, built, vendor,
                   warnings, predicted_yield, num_scenarios, created, weathers,
                   crop_yield, deterministic_model, extensive_form_model,
                   detereministic_result, extensive_form_results>>

----------------------------------------------------------------------------
(* examples/farmer-scenario-representation.py *)

\* Farmer.Farmer_attr(units, values): which attributes exist depends on the
\* number of keys of values
attr_Farmer_attr(units, values) ==
    LET n == Cardinality(DOMAIN values)
        two == [units |-> units, wheat |-> values["wheat"], corn |-> values["corn"]]
    IN  IF n = 3 THEN two @@ [beets |-> values["beets"]]
        ELSE IF n = 4
        THEN two @@ [beets_favorable |-> values["beets_favorable"],
                     beets_unfavorable |-> values["beets_unfavorable"]]
        ELSE two

\* the attributes Farmer.__init__ sets; the yields in units of 1/BaseDen
attr_Farmer ==
    [total_acres |-> 500,
     crop_yield |-> attr_Farmer_attr("T/acre", [wheat |-> 25, corn |-> 30, beets |-> 200]),
     planting_cost |-> attr_Farmer_attr("$/acre", [wheat |-> 150, corn |-> 230,
                                                    beets |-> 260]),
     selling_price |-> attr_Farmer_attr("$/T", [wheat |-> 170, corn |-> 150,
                                                 beets_favorable |-> 36,
                                                 beets_unfavorable |-> 10]),
     min_requirement |-> attr_Farmer_attr("T", [wheat |-> 200, corn |-> 240]),
     purchase_price |-> attr_Farmer_attr("$/T", [wheat |-> 238, corn |-> 210]),
     beets_quota |-> 6000]

attr_Farmer_init ==
    /\ script = "attr"
    /\ pc = "start"
    /\ crop_yield' = Attr(attr_Farmer.crop_yield)
    /\ pc' = "ready"
    /\ UNCHANGED <<script, scalar_model, solver_result, rng, built, vendor,
                   warnings, err, predicted_yield, num_scenarios, created,
                   weathers, deterministic_model, extensive_form_model,
                   detereministic_result, extensive_form_results, reads>>

attr_obj(self) ==
    (X("wheat") :> self.planting_cost.wheat) @@ (X("corn") :> self.planting_cost.corn)
      @@ (X("beets") :> self.planting_cost.beets)
      @@ (Y("wheat") :> self.purchase_price.wheat)
      @@ (W("wheat") :> 0 - self.selling_price.wheat)
      @@ (Y("corn") :> self.purchase_price.corn)
      @@ (W("corn") :> 0 - self.selling_price.corn)
      @@ (W("beets_favorable") :> 0 - self.selling_price.beets_favorable)
      @@ (W("beets_unfavorable") :> 0 - self.selling_price.beets_unfavorable)

attr_constraints(self) ==
    {[name |-> "total_acreage_allowed", index |-> <<>>,
      lhs |-> (X("wheat") :> Scaled(1)) @@ (X("corn") :> Scaled(1))
                @@ (X("beets") :> Scaled(1)),
      sense |-> "<=",
      rhs |-> Term(One, Scaled(self.total_acres))],
     [name |-> "minimum_wheat_requirement", index |-> <<>>,
      lhs |-> (X("wheat") :> YieldCoef(self.crop_yield.wheat))
                @@ (Y("wheat") :> Scaled(1)) @@ (W("wheat") :> 0 - Scaled(1)),
      sense |-> ">=",
      rhs |-> Term(One, Scaled(self.min_requirement.wheat))],
     [name |-> "minimum_corn_requirement", index |-> <<>>,
      lhs |-> (X("corn") :> YieldCoef(self.crop_yield.corn))
                @@ (Y("corn") :> Scaled(1)) @@ (W("corn") :> 0 - Scaled(1)),
      sense |-> ">=",
      rhs |-> Term(One, Scaled(self.min_requirement.corn))],
     [name |-> "sugar_beet_mass_balance", index |-> <<>>,
      lhs |-> (W("beets_favorable") :> Scaled(1))
                @@ (W("beets_unfavorable") :> Scaled(1)),
      sense |-> "<=",
      rhs |-> Term(X("beets"), YieldCoef(self.crop_yield.beets))],
     [name |-> "sugar_beet_quota", index |-> <<>>,
      lhs |-> Term(W("beets_favorable"), Scaled(1)),
      sense |-> "<=",
      rhs |-> Term(One, Scaled(self.beets_quota))]}

attr_deterministic_model(self) ==
    [x |-> {<<"wheat">>, <<"corn">>, <<"beets">>},
     w |-> {<<"wheat">>, <<"corn">>, <<"beets_favorable">>, <<"beets_unfavorable">>},
     y |-> {<<"wheat">>, <<"corn">>},
     within |-> "NonNegativeReals",
     obj |-> attr_obj(self),
     sense |-> "minimize",
     constraints |-> attr_constraints(self),
     values |-> "none"]

attr_build_deterministic_model ==
    /\ script = "attr"
    /\ pc = "ready"
    /\ deterministic_model' =
          Attr(attr_deterministic_model(
                  [attr_Farmer EXCEPT !.crop_yield = crop_yield.value]))
    /\ UNCHANGED <<script, scalar_model, solver_result, rng, built, vendor,
                   warnings, pc, err, predicted_yield, num_scenarios, created,
                   weathers, crop_yield, extensive_form_model,
                   detereministic_result, extensive_form_results, reads>>

\* only which == "deterministic" solves anything
attr_solve_pyomo_model(which, status) ==
    /\ script = "attr"
    /\ pc = "ready"
    /\ IF which # "deterministic"
       THEN UNCHANGED <<pc, err, deterministic_model, detereministic_result>>
       ELSE IF ~deterministic_model.set
       THEN /\ pc' = "crashed"
            /\ err' = "AttributeError"
            /\ UNCHANGED <<deterministic_model, detereministic_result>>
       ELSE /\ deterministic_model' = Attr(Solved(deterministic_model.value, status))
            /\ detereministic_result' = Attr(status)
            /\ UNCHANGED <<pc, err>>
    /\ UNCHANGED <<script, scalar_model, solver_result, rng, built, vendor,
                   warnings, predicted_yield, num_scenarios, created, weathers,
                   crop_yield, extensive_form_model, extensive_form_results,
                   reads>>

attr_show_results ==
    /\ script = "attr"
    /\ pc = "ready"
    /\ IF ~deterministic_model.set
       THEN /\ pc' = "crashed"
            /\ err' = "AttributeError"
            /\ UNCHANGED reads
       ELSE /\ reads' = reads \cup
                   {[which |-> "deterministic",
                     status |-> StatusOf(detereministic_result),
                     ok |-> ValuesLoaded(deterministic_model.value)]}
            /\ IF ValuesLoaded(deterministic_model.value)
               THEN UNCHANGED <<pc, err>>
               ELSE /\ pc' = "crashed"
                    /\ err' = "ValueError"
    /\ UNCHANGED <<script, scalar_model, solver_result, rng, built, vendor,
                   warnings, predicted_yield, num_scenarios, created, weathers,
                   crop_yield, deterministic_model, extensive_form_model,
                   detereministic_result, extensive_form_results>>

----------------------------------------------------------------------------
Init ==
    /\ script \in {"extensive", "mpi3", "ph", "sampling", "newsvendor", "scalar",
                   "attr"}
    /\ predicted_yield = Unbound
    /\ num_scenarios \in (IF script = "ph" THEN 1..MaxNumScenarios ELSE {0})
    /\ created = {}
    /\ pc = "start"
    /\ err = "none"
    /\ weathers = NoAttr
    /\ crop_yield = NoAttr
    /\ deterministic_model = NoAttr
    /\ extensive_form_model = NoAttr
    /\ detereministic_result = NoAttr
    /\ extensive_form_results = NoAttr
    /\ reads = {}
    /\ built = NoAttr
    /\ vendor = NoAttr
    /\ warnings = {}
    /\ scalar_model = Unbound
    /\ solver_result = Unbound
    /\ rng = 0

Next ==
    \/ \E weather_types \in WeatherTypeInputs : Farmer_init(weather_types)
    \/ build_deterministic_model
    \/ build_extensive_form_model
    \/ \E which \in WhichInputs, status \in SolverStatuses :
          solve_pyomo_model(which, status)
    \/ \E which \in WhichInputs : show_results(which)
    \/ \E scenario \in AllLabels : mpi3_scenario_creator(scenario)
    \/ \E scenario_num \in 0..(num_scenarios - 1) :
          ph_scenario_creator(scenario_num)
    \/ \E py \in ph_yield_arguments, probability \in ph_probability_arguments :
          ph_Farmer_build(py, probability)
    \/ \E n \in 1..MaxSamples : \E drawn \in DemandLists(n) : Vendor_init(n, drawn)
    \/ Vendor_build_model
    \/ \E status \in SolverStatuses : Vendor_solve_model(status)
    \/ \E n \in 1..MaxSamples :
          \E drawn \in nv_DemandArrays(n) : nv_Vendor_init(n, drawn)
    \/ nv_Vendor_build_model
    \/ \E status \in SolverStatuses : nv_Vendor_solve_model(status)
    \/ scalar_build
    \/ \E status \in SolverStatuses : scalar_solve(status)
    \/ scalar_show
    \/ attr_Farmer_init
    \/ attr_build_deterministic_model
    \/ \E which \in WhichInputs, status \in SolverStatuses :
          attr_solve_pyomo_model(which, status)
    \/ attr_show_results

Spec == Init /\ [][Next]_vars

----------------------------------------------------------------------------
(* Properties of examples/farmer-extensive-form.py *)

\* the scenario labels of the Farmer the extensive form was built for
Scenarios == Range(weathers.value)

\* an extensive-form model was built for a non-empty list of recognised labels
BuiltForKnownList ==
    /\ script = "extensive"
    /\ extensive_form_model.set
    /\ Len(weathers.value) > 0
    /\ Scenarios \subseteq KnownLabels

\* the coefficients of sum over s of p * (planting cost - selling revenue of s
\* + purchasing cost of s), with the same probability p = pn/pd for each of
\* the scenarios
WeightedSumOfScenarioObjectives(scenarios, pn, pd) ==
    [v \in {X(c) : c \in planting_crops}
           \cup {WS(sp) : sp \in scenarios \X selling_crops}
           \cup {YS(sp) : sp \in scenarios \X purchasing_crops} |->
        IF v[1] = "x" THEN <<Cardinality(scenarios) * pn * planting_cost[v[2]], pd>>
        ELSE IF v[1] = "w" THEN <<0 - pn * selling_price[v[3]], pd>>
        ELSE <<pn * purchase_price[v[3]], pd>>]

SameRatExpr(e1, e2) ==
    /\ DOMAIN e1 = DOMAIN e2
    /\ \A v \in DOMAIN e1 : RatEq(e1[v], e2[v])

\* C1: for every non-empty list of N distinct recognised labels the objective
\* of the extensive form is the sum over the scenarios of 1/N times the
\* scenario objective (planting cost - selling revenue + purchasing cost).
C1_ObjectiveIsExpectation ==
    BuiltForKnownList =>
        SameRatExpr(extensive_form_model.value.obj,
                    WeightedSumOfScenarioObjectives(Scenarios, 1, Len(weathers.value)))

\* the variable and the constraint index of the one-scenario extensive form
\* read as those of the deterministic model: the scenario index is dropped
DropScenarioVar(v) == IF Len(v) = 3 THEN <<v[1], v[3]>> ELSE v

DropScenarioExpr(e) ==
    [u \in {DropScenarioVar(v) : v \in DOMAIN e} |->
        e[CHOOSE v \in DOMAIN e : DropScenarioVar(v) = u]]

DropScenarioConstraint(c) ==
    [name |-> c.name,
     index |-> IF c.index = <<>> THEN <<>> ELSE Tail(c.index),
     lhs |-> DropScenarioExpr(c.lhs),
     sense |-> c.sense,
     rhs |-> DropScenarioExpr(c.rhs)]

\* the deterministic model Farmer(label).build_deterministic_model() builds
DeterministicModelFor(label) ==
    Farmer_deterministic_model(
        CropYieldDict(AssignPredictedYield(label, Unbound).value))

\* C2: the extensive form built for the one-element list [label] has the
\* objective coefficients and the constraints (so the feasible region) of
\* the deterministic model built for label.
C2_SingleScenarioIsDeterministic ==
    \A label \in KnownLabels :
        (script = "extensive" /\ extensive_form_model.set
            /\ weathers = List(<<label>>)) =>
            LET ef == extensive_form_model.value
                det == DeterministicModelFor(label)
            IN  /\ SameRatExpr(DropScenarioExpr(ef.obj), ToRat(det.obj))
                /\ {DropScenarioConstraint(c) : c \in ef.constraints}
                       = det.constraints

\* the extensive form of the good/fair/bad example is built
BuiltForExample ==
    /\ script = "extensive"
    /\ extensive_form_model.set
    /\ weathers = List(<<"good", "fair", "bad">>)

ScenarioIndexed(m) == {c \in m.constraints : c.index # <<>>}
Shared(m) == {c \in m.constraints : c.index = <<>>}

\* C3 as stated: 3 land, 12 selling and 6 purchasing variables, 15
\* scenario-indexed constraints and 1 shared total-acreage constraint.
C3_CountsAsStated ==
    BuiltForExample =>
        LET m == extensive_form_model.value
        IN  /\ Cardinality(m.x) = 3
            /\ Cardinality(m.w) = 12
            /\ Cardinality(m.y) = 6
            /\ Cardinality(ScenarioIndexed(m)) = 15
            /\ Cardinality(Shared(m)) = 1

\* C3 amended: 3 land, 12 selling and 6 purchasing variables, 3 x (2
\* min-requirement + 1 mass-balance + 1 quota) = 12 scenario-indexed
\* constraints and 1 shared total-acreage constraint, 13 in all.
C3_Counts ==
    BuiltForExample =>
        LET m == extensive_form_model.value
            named(n) == {c \in ScenarioIndexed(m) : c.name = n}
        IN  /\ Cardinality(m.x) = 3
            /\ Cardinality(m.w) = 4 * 3
            /\ Cardinality(m.y) = 2 * 3
            /\ Cardinality(named("minimum_requirement")) = 3 * 2
            /\ Cardinality(named("sugar_beet_mass_balance")) = 3
            /\ Cardinality(named("sugar_beet_quota")) = 3
            /\ Cardinality(ScenarioIndexed(m)) = 12
            /\ Shared(m) = {c \in m.constraints : c.name = "total_acreage_allowed"}
            /\ Cardinality(Shared(m)) = 1
            /\ Cardinality(m.constraints) = 13

C3_Witness == BuiltForExample

\* every variable an expression or a constraint of the model mentions
MentionedVars(m) ==
    (DOMAIN m.obj \cup UNION {DOMAIN c.lhs \cup DOMAIN c.rhs : c \in m.constraints})
        \ {One}

\* C4: every extensive-form model has one land variable per crop, with no
\* scenario index, and one selling and one purchasing variable per
\* (scenario, product); its objective and constraints use no other variable.
C4_FirstStageShared ==
    (script = "extensive" /\ extensive_form_model.set) =>
        LET m == extensive_form_model.value
        IN  /\ m.x = {<<c>> : c \in planting_crops}
            /\ m.w = Scenarios \X selling_crops
            /\ m.y = Scenarios \X purchasing_crops
            /\ MentionedVars(m) \subseteq
                   {X(i[1]) : i \in m.x} \cup {WS(i) : i \in m.w}
                       \cup {YS(i) : i \in m.y}
            /\ {v \in MentionedVars(m) : v[1] = "x"} = {X(c) : c \in planting_crops}

C4_Witness ==
    /\ script = "extensive"
    /\ extensive_form_model.set
    /\ Len(weathers.value) = 2

\* C6: in a run on the good/fair/bad example, show_results reads no variable
\* or objective value of a model whose last solve ended infeasible or
\* unbounded.
C6_NoReadAfterFailedSolve ==
    BuiltForExample =>
        \A r \in reads : r.status \notin {"infeasible", "unbounded"}

\* ObjectiveWeightDen times the value of a rational expression whose
\* denominators divide ObjectiveWeightDen, at the assignment a
ValueTimesDen(e, a) ==
    Sum([v \in DOMAIN e |-> ((e[v][1] * ObjectiveWeightDen) \div e[v][2]) * a[v]])

\* the variable of the scenario model of s as the variable of the extensive
\* form: the land variables are shared, the others get the scenario index
LiftVar(s, v) == IF v[1] = "x" THEN v ELSE <<v[1], s, v[2]>>

\* the model and the probability scenario_creator of farmer-3-scenarios.py
\* attaches to a scenario; the objective does not use the yield
ScenarioModel == mpi3_attach(mpi3_build_deterministic_model(mpi3_Farmer(1 * MultDen)))

\* ObjectiveWeightDen times the sum over the scenarios s of probability[s]
\* times the full objective of the scenario model of s, at the assignment a
WeightedValueTimesDen(scenarios, a) ==
    Sum([s \in scenarios |->
        Sum([v \in DOMAIN ScenarioModel.model.obj |->
            ((ScenarioModel.probability[1] * ObjectiveWeightDen)
                 \div ScenarioModel.probability[2])
              * ScenarioModel.model.obj[v] * a[LiftVar(s, v)]])])

\* ObjectiveWeightDen times the sum of the probabilities of the scenarios
ProbabilitySumTimesDen(scenarios) ==
    Sum([s \in scenarios |->
        (ScenarioModel.probability[1] * ObjectiveWeightDen)
            \div ScenarioModel.probability[2]])

PlantingCostValue(a) ==
    Sum([c \in planting_crops |-> planting_cost[c] * a[X(c)]])

\* assignments of the variables: any of two values for each land variable,
\* and for each scenario either no sale and no purchase or some of each
Assignments(scenarios) ==
    {[v \in {X(c) : c \in planting_crops}
            \cup {WS(sp) : sp \in scenarios \X selling_crops}
            \cup {YS(sp) : sp \in scenarios \X purchasing_crops} |->
        IF v[1] = "x" THEN xa[v[2]]
        ELSE IF v[1] = "w" THEN 30 * sa[v[2]] ELSE 7 * sa[v[2]]]
        : xa \in [planting_crops -> {0, 100}],
          sa \in [scenarios -> {0, 1}]}

\* C8: at every assignment, the objective with the planting cost outside the
\* weighted sum equals the sum over the scenarios of probability times the
\* full scenario objective when the probabilities sum to 1, and differs from
\* it when they do not and the planting cost is not zero.
C8_FactoredEqualsWeighted ==
    (script = "extensive" /\ extensive_form_model.set) =>
        \A a \in Assignments(Scenarios) :
            LET factored == ValueTimesDen(extensive_form_model.value.obj, a)
                weighted == WeightedValueTimesDen(Scenarios, a)
                sumsToOne == ProbabilitySumTimesDen(Scenarios) = ObjectiveWeightDen
            IN  /\ sumsToOne => factored = weighted
                /\ (~sumsToOne /\ PlantingCostValue(a) # 0) => factored # weighted

C8_Witness ==
    /\ script = "extensive"
    /\ extensive_form_model.set
    /\ Len(weathers.value) = 3
    /\ \E a \in Assignments(Scenarios) : PlantingCostValue(a) # 0

----------------------------------------------------------------------------
(* Properties of the scenario parameter sets and the deterministic models *)

\* C5: the yield coefficients of the model built for a scenario depend on
\* that scenario's label alone: two models built for the same label in one
\* process have the same yields and the same constraints.
C5_YieldFromOwnLabel ==
    script = "mpi3" =>
        \A a, b \in created :
            a.scenario = b.scenario =>
                /\ a.farmer.crop_yield = b.farmer.crop_yield
                /\ a.model.constraints = b.model.constraints

\* C7: a scenario parameter set is never constructed from an unrecognised
\* label: Farmer(...) does not return normally when its label, or a label of
\* its list, is not good, fair or bad, and scenario_creator returns no model
\* for such a label.
C7_UnknownLabelRejected ==
    /\ (script = "extensive" /\ pc # "start" /\ weathers.type \in {"str", "list"}
            /\ ~(Range(weathers.value) \subseteq KnownLabels))
           => (pc = "crashed" /\ ~crop_yield.set)
    /\ script = "mpi3" =>
           \A e \in created : Range(e.scenario) \subseteq KnownLabels

\* the objective and the constraints as the claims state them
ClaimedObjective ==
    (X("wheat") :> 150) @@ (X("corn") :> 230) @@ (X("beets") :> 260)
        @@ (W("wheat") :> 0 - 170) @@ (W("corn") :> 0 - 150)
        @@ (W("beets_favorable") :> 0 - 36) @@ (W("beets_unfavorable") :> 0 - 10)
        @@ (Y("wheat") :> 238) @@ (Y("corn") :> 210)

ClaimedConstraints(yield) ==
    {[name |-> "total_acreage_allowed", index |-> <<>>,
      lhs |-> (X("wheat") :> Scaled(1)) @@ (X("corn") :> Scaled(1))
                  @@ (X("beets") :> Scaled(1)),
      sense |-> "<=", rhs |-> (One :> Scaled(500))],
     [name |-> "minimum_requirement", index |-> <<"wheat">>,
      lhs |-> (X("wheat") :> yield.wheat) @@ (Y("wheat") :> Scaled(1))
                  @@ (W("wheat") :> 0 - Scaled(1)),
      sense |-> ">=", rhs |-> (One :> Scaled(200))],
     [name |-> "minimum_requirement", index |-> <<"corn">>,
      lhs |-> (X("corn") :> yield.corn) @@ (Y("corn") :> Scaled(1))
                  @@ (W("corn") :> 0 - Scaled(1)),
      sense |-> ">=", rhs |-> (One :> Scaled(240))],
     [name |-> "sugar_beet_mass_balance", index |-> <<>>,
      lhs |-> (W("beets_favorable") :> Scaled(1))
                  @@ (W("beets_unfavorable") :> Scaled(1)),
      sense |-> "<=", rhs |-> (X("beets") :> yield.beets)],
     [name |-> "sugar_beet_quota", index |-> <<>>,
      lhs |-> (W("beets_favorable") :> Scaled(1)),
      sense |-> "<=", rhs |-> (One :> Scaled(6000))]}

\* C9: every deterministic model minimises planting cost - selling revenue
\* + purchasing cost with the stated unit costs and prices, whatever the
\* scenario.
C9_ScenarioObjective ==
    /\ (script = "extensive" /\ deterministic_model.set) =>
           /\ deterministic_model.value.obj = ClaimedObjective
           /\ deterministic_model.value.sense = "minimize"
    /\ script \in {"mpi3", "ph"} =>
           \A e \in created :
               /\ e.model.obj = ClaimedObjective
               /\ e.model.sense = "minimize"
               /\ \A v \in DOMAIN e.model.obj :
                      e.model.obj[v] = Coef(e.model.planting_cost, v)
                          - Coef(e.model.selling_cost, v)
                          + Coef(e.model.puchasing_cost, v)

C9_Witness ==
    /\ script = "mpi3"
    /\ \E a, b \in created : a.farmer.crop_yield # b.farmer.crop_yield

\* C10: every deterministic model has exactly the total-acreage constraint,
\* the minimum-requirement constraints of wheat and corn, the beet
\* mass-balance and the beet quota, with the yields of its own scenario.
C10_ScenarioConstraints ==
    /\ (script = "extensive" /\ deterministic_model.set) =>
           deterministic_model.value.constraints = ClaimedConstraints(crop_yield.value)
    /\ script \in {"mpi3", "ph"} =>
           \A e \in created :
               e.model.constraints = ClaimedConstraints(e.farmer.crop_yield)

C10_Witness ==
    /\ script = "mpi3"
    /\ \E e \in created : e.scenario = <<"bad">> /\ e.farmer.crop_yield.wheat = Scaled(2)

----------------------------------------------------------------------------
(* Yields of the known labels *)

\* the stated yield of a label: the fair-weather yield (wheat 2.5, corn 3,
\* beets 20) times 1.2, 1.0 or 0.8, in units of 1/YieldDen
StatedMultiplierTenths(label) ==
    CASE label = "good" -> 12
      [] label = "fair" -> 10
      [] label = "bad" -> 8

StatedYield(label) ==
    LET tenths == StatedMultiplierTenths(label)
    IN  [wheat |-> (25 * tenths * YieldDen) \div 100,
         corn |-> (30 * tenths * YieldDen) \div 100,
         beets |-> (200 * tenths * YieldDen) \div 100]

\* C11: for every label among good, fair and bad, the yields every Farmer
\* constructor stores for that label (the single label and each element of a
\* label list in the extensive-form script, the label of the 3-scenario
\* mpi-sppy script) are the fair-weather yields times 1.2, 1.0 and 0.8.
C11_KnownLabelYields ==
    /\ (script = "extensive" /\ crop_yield.set /\ weathers.type = "str"
            /\ StrOf(weathers) \in KnownLabels)
          => crop_yield.value = StatedYield(StrOf(weathers))
    /\ (script = "extensive" /\ crop_yield.set /\ weathers.type = "list")
          => \A weather \in Scenarios \cap KnownLabels :
                crop_yield.value[weather] = StatedYield(weather)
    /\ script = "mpi3"
          => \A e \in created :
                e.scenario[1] \in KnownLabels
                  => e.farmer.crop_yield = StatedYield(e.scenario[1])

\* scenario_creator was called for good and for bad weather
C11_Witness ==
    /\ script = "mpi3"
    /\ \E e \in created : e.scenario[1] = "good" /\ e.farmer.crop_yield["corn"] = 360000
    /\ \E e \in created : e.scenario[1] = "bad" /\ e.farmer.crop_yield["beets"] = 1600000

----------------------------------------------------------------------------
(* Building twice *)

\* the variable groups, objective and constraints of a deterministic model
Structure(m) ==
    [x |-> m.x, w |-> m.w, y |-> m.y, within |-> m.within,
     obj |-> m.obj, sense |-> m.sense, constraints |-> m.constraints]

\* C12: building a deterministic model again from the same scenario data
\* gives the same variable groups, objective and constraints, and building
\* leaves the scenario data as they were: a build_deterministic_model step of
\* the extensive-form script keeps weathers and crop_yield and, when a model
\* was already stored, stores one of the same structure; two models that
\* scenario_creator built from equal Farmer objects have the same structure.
C12_BuildIsIdempotent ==
    [][ /\ build_deterministic_model
            => /\ weathers' = weathers
               /\ crop_yield' = crop_yield
               /\ (deterministic_model.set /\ deterministic_model'.set)
                     => Structure(deterministic_model'.value)
                          = Structure(deterministic_model.value)
        /\ \A a \in created', b \in created' :
              a.farmer = b.farmer => Structure(a.model) = Structure(b.model)
        /\ \A a \in created : \E b \in created' :
              a.scenario = b.scenario /\ a.farmer = b.farmer ]_vars

\* the model was built again after an optimal solve of the first build
C12_Witness ==
    /\ script = "extensive"
    /\ deterministic_model.set
    /\ detereministic_result = Attr("optimal")
    /\ deterministic_model.value.values = "none"

----------------------------------------------------------------------------
(* Probabilities of a scenario set *)

\* the sum of two rationals, on the common denominator when they share one
RatPlus(a, b) == IF a[2] = b[2] THEN <<a[1] + b[1], a[2]>> ELSE RatAdd(a, b)

\* the sum of the rationals f[k], k in S
RECURSIVE RatSumOn(_, _)
RatSumOn(f, S) ==
    IF S = {} THEN <<0, 1>>
    ELSE LET k == CHOOSE u \in S : TRUE
         IN  IF S = {k} THEN f[k] ELSE RatPlus(f[k], RatSumOn(f, S \ {k}))

RatPositive(a) == a[1] * a[2] > 0

\* every probability is positive and the probabilities sum to 1
IsDistribution(f) ==
    /\ \A k \in DOMAIN f : RatPositive(f[k])
    /\ RatEq(RatSumOn(f, DOMAIN f), <<1, 1>>)

\* the probability scenario_creator attached to the model of a scenario name
AttachedProbability(name) ==
    (CHOOSE e \in created : e.scenario[1] = name).probability

\* the scenario names the main block of the mpi-sppy script hands to mpi-sppy
AllScenarioNames ==
    IF script = "mpi3" THEN Range(mpi3_all_scenarios) ELSE 0..(num_scenarios - 1)

AllScenariosCreated ==
    \A name \in AllScenarioNames : \E e \in created : e.scenario[1] = name

\* C13: in every scenario set the scripts construct, each probability is
\* positive and the probabilities sum to 1: the three farmer scenarios of the
\* 3-scenario script at 1/3 each, the N bin probabilities scenario_creator of
\* the PH script attaches, and count(d)/N over the distinct sampled demands
\* of the news vendor.
C13_ProbabilitiesAreADistribution ==
    /\ \A e \in created :
          e.scenario[1] \in AllScenarioNames => RatPositive(e.probability)
    /\ (script \in {"mpi3", "ph"} /\ AllScenariosCreated)
          => IsDistribution([name \in AllScenarioNames |-> AttachedProbability(name)])
    /\ (script = "mpi3" /\ AllScenariosCreated)
          => \A name \in AllScenarioNames : RatEq(AttachedProbability(name), <<1, 3>>)
    /\ (script = "sampling" /\ vendor.set)
          => IsDistribution(vendor.value.p)

\* a sample of three demands that draws one of them twice
C13_Witness ==
    /\ script = "sampling"
    /\ vendor.set
    /\ vendor.value.demand = <<50, 100, 50>>
    /\ vendor.value.p = (50 :> <<2, 3>>) @@ (100 :> <<1, 3>>)

\* a PH run that created every scenario of its three bins
AllBinsCreated ==
    script = "ph" /\ num_scenarios = MaxNumScenarios /\ AllScenariosCreated

----------------------------------------------------------------------------
(* The empty scenario list *)

\* C14: building the extensive form from an empty scenario list fails with
\* EmptyScenarioSetError and produces no model: a Farmer constructed from the
\* empty list never holds an extensive-form model.
C14_EmptyListProducesNoModel ==
    (script = "extensive" /\ weathers = List(<<>>))
        => ~extensive_form_model.set

----------------------------------------------------------------------------
(* Weights that do not sum to 1 *)

\* the sum of the probability weights the extensive-form objective applies
\* to the scenarios of its list
AppliedWeightSum ==
    <<Len(weathers.value) * ObjectiveWeightNum, ObjectiveWeightDen>>

\* C15: whenever the probability weights applied in the aggregated objective
\* do not sum to 1 (a list of length other than 3, weighted by the fixed
\* 1/3), ProbabilityNormalizationWarning is issued and the model is still
\* built: an extensive-form model built for a non-empty list with such
\* weights comes with the warning.
C15_WarnsOnWeightSum ==
    (script = "extensive" /\ extensive_form_model.set
        /\ Len(weathers.value) > 0
        /\ ~RatEq(AppliedWeightSum, <<1, 1>>))
        => "ProbabilityNormalizationWarning" \in warnings

----------------------------------------------------------------------------
(* First-stage variables of the per-scenario models *)

\* the first-stage variable group of a per-scenario model
FirstStageGroup(m) == [name |-> "x", index |-> m.x, within |-> m.within]

StatedFirstStageGroup ==
    [name |-> "x", index |-> {<<"wheat">>, <<"corn">>, <<"beets">>},
     within |-> "NonNegativeReals"]

StatedPlantingCost ==
    (X("wheat") :> 150) @@ (X("corn") :> 230) @@ (X("beets") :> 260)

----------------------------------------------------------------------------
(* Order of the calls on a Farmer *)

\* the structure of a model attribute, whether it is set or not
StructureOf(attr) == IF attr.set THEN Attr(Structure(attr.value)) ELSE NoAttr

\* a step of solve_pyomo_model or of show_results
SolveStep ==
    \E which \in WhichInputs, status \in SolverStatuses :
        solve_pyomo_model(which, status)
ShowStep == \E which \in WhichInputs : show_results(which)

\* C17: in every sequence of calls on a Farmer the operations take effect in
\* the order construct, build, solve, read: a solve result is stored only for
\* a model that was built, from data that were constructed; show_results
\* obtains values only from a model that was solved; and a step of
\* solve_pyomo_model or show_results leaves weathers, crop_yield and the
\* variable groups, objective and constraints of both models unchanged
\* (show_results leaves the solve results unchanged as well).
C17_CallOrder ==
    [][ /\ detereministic_result'.set
            => deterministic_model'.set /\ crop_yield'.set
        /\ extensive_form_results'.set
            => extensive_form_model'.set /\ crop_yield'.set
        /\ \A r \in reads' : r.ok => r.status # "unsolved"
        /\ (SolveStep \/ ShowStep)
            => /\ weathers' = weathers
               /\ crop_yield' = crop_yield
               /\ StructureOf(deterministic_model') = StructureOf(deterministic_model)
               /\ StructureOf(extensive_form_model') = StructureOf(extensive_form_model)
        /\ ShowStep
            => /\ deterministic_model' = deterministic_model
               /\ extensive_form_model' = extensive_form_model
               /\ detereministic_result' = detereministic_result
               /\ extensive_form_results' = extensive_form_results ]_vars

\* the results of an optimally solved extensive form were read
C17_Witness ==
    /\ script = "extensive"
    /\ pc = "ready"
    /\ \E r \in reads : r.which = "extensive" /\ r.ok /\ r.status = "optimal"

----------------------------------------------------------------------------
(* Feasibility of the deterministic model *)

\* the value of a linear expression at a point (a function from variables to
\* numbers)
ValueAt(e, point) ==
    Sum([v \in DOMAIN e |-> e[v] * (IF v = One THEN 1 ELSE point[v])])

Satisfies(c, point) ==
    LET l == ValueAt(c.lhs, point)
        r == ValueAt(c.rhs, point)
    IN  CASE c.sense = "<=" -> l <= r
          [] c.sense = ">=" -> l >= r
          [] c.sense = "==" -> l = r

FeasibleAt(m, point) == \A c \in m.constraints : Satisfies(c, point)

\* a point from its three groups of values
PointOf(xv, wv, yv) ==
    [v \in {X(c) : c \in DOMAIN xv} \cup {W(p) : p \in DOMAIN wv}
            \cup {Y(p) : p \in DOMAIN yv} |->
        IF v[1] = "x" THEN xv[v[2]] ELSE IF v[1] = "w" THEN wv[v[2]] ELSE yv[v[2]]]

\* plant nothing, sell nothing, purchase the whole minimum requirement
PurchaseEverything ==
    PointOf([c \in planting_crops |-> 0], [p \in selling_crops |-> 0],
            [p \in purchasing_crops |-> min_requirement[p]])

\* a grid of non-negative points: 0 or 100 acres of each crop, 0 or 50 tons
\* of wheat and corn sold, purchases below, at and above the requirement
GridPoints ==
    {PointOf(xv, [p \in selling_crops |-> IF p \in DOMAIN sv THEN sv[p] ELSE 0], yv) :
        xv \in [planting_crops -> {0, 100}],
        sv \in [purchasing_crops -> {0, 50}],
        yv \in [purchasing_crops -> {0, 200, 240, 300}]}

\* no constraint bounds a purchase from above: y occurs only on the greater
\* side of a >= constraint
PurchasesUnbounded(m) ==
    \A c \in m.constraints : \A p \in purchasing_crops :
        /\ Coef(c.rhs, Y(p)) = 0
        /\ Coef(c.lhs, Y(p)) # 0 => (c.sense = ">=" /\ Coef(c.lhs, Y(p)) > 0)

\* the deterministic models of the PH script: those scenario_creator
\* returned and the one built from a Farmer directly
PHModels ==
    {[crop_yield |-> e.farmer.crop_yield, model |-> e.model] : e \in created}
        \cup (IF built.set
              THEN {[crop_yield |-> built.value.farmer.crop_yield,
                     model |-> built.value.model]}
              ELSE {})

----------------------------------------------------------------------------
(* Scenario-indexed constraints of the extensive form *)

\* the variables and the constant a constraint mentions
Mentioned(c) == DOMAIN c.lhs \cup DOMAIN c.rhs

\* C19: in every extensive-form model, a constraint indexed by a scenario s
\* (minimum requirement, beet mass balance, quota) mentions only w[s, .] and
\* y[s, .] of that scenario and the shared x, and the yield multiplying x is
\* the yield stored for s: no constraint mixes two scenarios.
C19_ConstraintsStayInScenario ==
    (script = "extensive" /\ extensive_form_model.set)
        => \A c \in extensive_form_model.value.constraints :
              c.index # <<>>
                => LET s == c.index[1]
                   IN  /\ s \in Scenarios
                       /\ c.name \in {"minimum_requirement",
                                       "sugar_beet_mass_balance",
                                       "sugar_beet_quota"}
                       /\ \A v \in Mentioned(c) :
                             \/ v = One
                             \/ v \in {X(crop) : crop \in planting_crops}
                             \/ /\ Len(v) = 3
                                /\ v[1] \in {"w", "y"}
                                /\ v[2] = s
                       /\ \A crop \in planting_crops :
                             X(crop) \in Mentioned(c)
                               => Coef(c.lhs, X(crop)) + Coef(c.rhs, X(crop))
                                    = crop_yield.value[s][crop]

\* an extensive form built for the good and the bad scenario, whose yields
\* differ
C19_Witness ==
    /\ script = "extensive"
    /\ extensive_form_model.set
    /\ {"good", "bad"} \subseteq Scenarios
    /\ crop_yield.value["good"] # crop_yield.value["bad"]
    /\ \E c \in extensive_form_model.value.constraints :
          c.name = "sugar_beet_mass_balance" /\ c.index = <<"bad">>

----------------------------------------------------------------------------
(* Objective weights of the sampled news vendor *)

\* the weight the objective puts on the papers sold and on the papers
\* returned under demand d: the coefficient of y[d] over -q, of w[d] over -r
SoldWeight(self, d) ==
    LET k == self.model.value.obj[Vendor_y(d)] IN <<0 - k[1], k[2] * self.q>>
ReturnedWeight(self, d) ==
    LET k == self.model.value.obj[Vendor_w(d)] IN <<0 - k[1], k[2] * self.r>>

\* C20: for every sampled demand list, repeated values included, the total
\* objective weight on y[d] and on w[d] of each distinct demand d is
\* p[d] = count(d) / num_scenarios (times q and r), so the weights over the
\* distinct demands sum to 1.
C20_WeightIsProbability ==
    (script = "sampling" /\ vendor.set /\ vendor.value.model.set)
        => LET self == vendor.value
               distinct == Range(self.demand)
           IN  /\ \A d \in distinct :
                     /\ RatEq(SoldWeight(self, d), self.p[d])
                     /\ RatEq(ReturnedWeight(self, d), self.p[d])
               /\ RatEq(RatSumOn([d \in distinct |-> SoldWeight(self, d)], distinct),
                        <<1, 1>>)

----------------------------------------------------------------------------
(* Objective of examples/news-vendor.py *)

\* C21: in build_model of news-vendor.py the objective is the cost of the
\* papers bought minus the expected revenue of the papers sold minus the
\* expected return value of the leftover papers, the leftover term being the
\* scenario average of r * w[y]: x has coefficient c and each variable w[y]
\* has coefficient -r / num_scenarios.
C21_LeftoverCoefficient ==
    (script = "newsvendor" /\ vendor.set /\ vendor.value.model.set)
        => LET self == vendor.value
               obj == self.model.value.obj
           IN  /\ RatEq(RatCoef(obj, Vendor_x), <<self.c, 1>>)
               /\ \A y \in Range(self.y) :
                     RatEq(RatCoef(obj, Vendor_w(y)),
                           <<0 - self.r, self.num_scenarios>>)

----------------------------------------------------------------------------
(* The three fair-weather deterministic models *)

\* x1..x3 = x[wheat, corn, beets], w1..w4 = w[wheat, corn, beets_favorable,
\* beets_unfavorable], y1..y2 = y[wheat, corn]
Correspondence ==
    [x1 |-> X("wheat"), x2 |-> X("corn"), x3 |-> X("beets"),
     w1 |-> W("wheat"), w2 |-> W("corn"),
     w3 |-> W("beets_favorable"), w4 |-> W("beets_unfavorable"),
     y1 |-> Y("wheat"), y2 |-> Y("corn")]

Corresponding(v) == IF v = One THEN One ELSE Correspondence[v[1]]

\* a linear expression over the scalar variables, in the indexed variables
Translated(e) ==
    [v \in {Corresponding(u) : u \in DOMAIN e} |->
        e[CHOOSE u \in DOMAIN e : Corresponding(u) = v]]

\* a constraint without its name: two sides and a sense
Shape(c) == [lhs |-> c.lhs, sense |-> c.sense, rhs |-> c.rhs]
TranslatedShape(c) ==
    [lhs |-> Translated(c.lhs), sense |-> c.sense, rhs |-> Translated(c.rhs)]

\* the model build_deterministic_model of farmer-extensive-form.py builds
\* for the label fair
FairModel == DeterministicModelFor("fair")

\* C22: the three fair-weather deterministic farmer models are equivalent:
\* under the variable correspondence, the model of the scalar script and the
\* model of the attribute-based Farmer class have the objective coefficients
\* and the five constraints of the model that build_deterministic_model of
\* farmer-extensive-form.py builds for the label fair.
C22_FairModelsEquivalent ==
    /\ (script = "scalar" /\ scalar_model.bound)
          => /\ Translated(scalar_model.value.obj) = FairModel.obj
             /\ {TranslatedShape(c) : c \in scalar_model.value.constraints}
                   = {Shape(c) : c \in FairModel.constraints}
             /\ Cardinality(scalar_model.value.constraints) = 5
    /\ (script = "attr" /\ deterministic_model.set)
          => /\ deterministic_model.value.obj = FairModel.obj
             /\ {Shape(c) : c \in deterministic_model.value.constraints}
                   = {Shape(c) : c \in FairModel.constraints}
             /\ Cardinality(deterministic_model.value.constraints) = 5
    /\ (script = "extensive" /\ deterministic_model.set /\ weathers = Str("fair"))
          => /\ Structure(deterministic_model.value) = Structure(FairModel)
             /\ Cardinality(deterministic_model.value.constraints) = 5

\* the scalar script declared its model and the solver answered
C22_Witness ==
    /\ script = "scalar"
    /\ scalar_model.bound
    /\ solver_result.bound
    /\ Cardinality(scalar_model.value.constraints) = 5

----------------------------------------------------------------------------
(* scenario_creator of the PH script as a function of the scenario name *)

\* the realized yield multiplier of a created scenario, in units of 1/MultDen
RealizedYield(e) == e.farmer.crop_yield["wheat"] \div 25

\* C23: in farmer-n-scenarios-PH.py, for a fixed number of scenarios two
\* calls of scenario_creator with the same scenario name return models with
\* the same probability and the same realized yield coefficients, whatever
\* calls happened before in the process; and the realized yield of scenario
\* k lies inside its own bin [bins[k], bins[k+1]].
C23_FunctionOfScenarioName ==
    script = "ph"
        => /\ \A a \in created, b \in created :
                 a.scenario = b.scenario
                   => /\ a.probability = b.probability
                      /\ a.farmer.crop_yield = b.farmer.crop_yield
                      /\ a.model.constraints = b.model.constraints
           /\ \A e \in created :
                 LET k == e.scenario[1]
                 IN  /\ ph_bin_times_n(num_scenarios, k) <= RealizedYield(e) * num_scenarios
                     /\ RealizedYield(e) * num_scenarios
                           <= ph_bin_times_n(num_scenarios, k + 1)

====
